---- MODULE Spec2Model ----
(***************************************************************************)
(* Model of discord-pin-archiver (src/pin_archiver.py): the settings table *)
(* pin_archive_settings and the statements run against it, the /pin        *)
(* commands, and the on_guild_channel_pins_update handler with its         *)
(* duplicate-event guard.  Handler invocations are asyncio tasks: a step   *)
(* of the model is the code between two awaits.                            *)
(***************************************************************************)
EXTENDS Integers, Sequences, FiniteSets, TLC

(* ------------------------------ bounds --------------------------------- *)
MaxGuilds == 2
MaxChannels == 2
MaxMsgs == 2
MaxTasks == 3
MaxConfigured == 1

Guilds == 1..MaxGuilds
\* Identifiers of text channels that exist on the platform (snowflakes, never 0 or 1).
TextChannels == {10 * k : k \in 1..MaxChannels}
\* Identifiers of the messages that sit at the two ends of a fetched pin list.
MsgIds == 1..MaxMsgs
Tasks == 1..MaxTasks

\* Python's None: as an identifier (no identifier is 0), as a PinMode, as a location
None == 0

NoMode == "none"

NoLocation == [guild_id |-> None, channel_id |-> None, pin_mode |-> NoMode]

(* --------------------------- PinMode (enum) ---------------------------- *)
PinMode == {"oldest", "newest"}

\* PinMode.value
PinModeValue(mode) == IF mode = "oldest" THEN 1 ELSE 2

\* PinMode(value); a value that is no member raises ValueError
PinModeOf(value) ==
    IF value = 1 THEN "oldest" ELSE IF value = 2 THEN "newest" ELSE "ValueError"

(* ------------------------- PinArchiveLocation -------------------------- *)
PinArchiveLocation(guild_id, channel_id, pin_mode) ==
    [guild_id |-> guild_id, channel_id |-> channel_id, pin_mode |-> pin_mode]

\* a table row is <<guild_id, channel_id, pin_mode>> with pin_mode an INTEGER
from_row(row) == PinArchiveLocation(row[1], row[2], PinModeOf(row[3]))

to_row(loc) == <<loc.guild_id, loc.channel_id, PinModeValue(loc.pin_mode)>>

(* ------------------------------ SQL ------------------------------------ *)
\* SQLite comparison and AND on integers: the result is the integer 0 or 1.
SqlEq(a, b) == IF a = b THEN 1 ELSE 0

SqlAnd(a, b) == IF a # 0 /\ b # 0 THEN 1 ELSE 0

RowsOf(table, guild_id) == {r \in table : r[1] = guild_id}

\* the rows of a guild as the list a cursor yields
RowList(table, guild_id) ==
    IF RowsOf(table, guild_id) = {} THEN <<>>
    ELSE <<CHOOSE r \in RowsOf(table, guild_id) : TRUE>>

\* a SELECT without its WHERE clause
SelectAnyGuild(table, guild_id) ==
    IF table = {} THEN <<>> ELSE <<CHOOSE r \in table : TRUE>>

\* SELECT * FROM pin_archive_settings WHERE guild_id = ?
SelectByGuild(table, guild_id) == RowList(table, guild_id)

\* a plain INSERT: the ON CONFLICT clause left out
UpsertArchiveNoConflict(table, row) == table \cup {row}

\* INSERT ... ON CONFLICT (guild_id) DO UPDATE SET channel_id, pin_mode
UpsertArchive(table, row) ==
    (table \ RowsOf(table, row[1])) \cup {row}

\* an UPDATE of the mode without its WHERE clause
UpdateModeAllRows(table, value, guild_id) == {<<r[1], r[2], value>> : r \in table}

\* UPDATE pin_archive_settings SET pin_mode = ? WHERE guild_id = ?
UpdateMode(table, value, guild_id) ==
    (table \ RowsOf(table, guild_id))
        \cup {<<r[1], r[2], value>> : r \in RowsOf(table, guild_id)}

\* an UPDATE of the channel that also resets pin_mode to its default
UpdateChannelResetMode(table, channel_id, guild_id) ==
    (table \ RowsOf(table, guild_id))
        \cup {<<r[1], channel_id, 1>> : r \in RowsOf(table, guild_id)}

\* an UPDATE of the channel that inserts the row when the guild has none
UpdateChannelOrInsert(table, channel_id, guild_id) ==
    IF RowsOf(table, guild_id) = {}
    THEN table \cup {<<guild_id, channel_id, 1>>}
    ELSE (table \ RowsOf(table, guild_id))
            \cup {<<r[1], channel_id, r[3]>> : r \in RowsOf(table, guild_id)}

\* UPDATE pin_archive_settings SET channel_id = ? WHERE guild_id = ?
UpdateChannel(table, channel_id, guild_id) ==
    (table \ RowsOf(table, guild_id))
        \cup {<<r[1], channel_id, r[3]>> : r \in RowsOf(table, guild_id)}

\* UPDATE pin_archive_settings SET channel_id = ? and pin_mode = ? WHERE guild_id = ?
\* SQLite reads the SET clause as channel_id = (? AND (pin_mode = ?)).
UpdateChannelAndMode(table, channel_id, value, guild_id) ==
    (table \ RowsOf(table, guild_id))
        \cup {<<r[1], SqlAnd(channel_id, SqlEq(r[3], value)), r[3]>> :
                r \in RowsOf(table, guild_id)}

\* a DELETE without its WHERE clause
DropArchiveAll(table, guild_id) == {}

\* DELETE FROM pin_archive_settings WHERE guild_id = ?
DropArchive(table, guild_id) == table \ RowsOf(table, guild_id)

\* locations[0] if locations else None, on the rows a statement returned
FirstLocation(rows) == IF rows = <<>> THEN NoLocation ELSE from_row(rows[1])

\* PinArchiverBot.get_archive_channel
get_archive_channel(table, guild_id) == FirstLocation(SelectByGuild(table, guild_id))

(* ------------------------- handler helpers ----------------------------- *)
\* the pin count below which the handler does nothing
PinThreshold == 49

\* the threshold test off by one
BelowThresholdOffByOne(current_pins) == Len(current_pins) < PinThreshold - 1

\* len(current_pins) < 49
BelowThreshold(current_pins) == Len(current_pins) < PinThreshold

\* channel.guild.get_channel(location.channel_id): None when the guild has no such channel
get_channel(channel_id, gone) ==
    IF channel_id \in TextChannels /\ ~gone THEN channel_id ELSE None

\* the two ends of the list taken the other way round
SelectPinSwapped(current_pins, pin_mode) ==
    IF pin_mode = "oldest" THEN current_pins[1] ELSE current_pins[Len(current_pins)]

\* current_pins[-1] if (location.pin_mode is PinMode.oldest) else current_pins[0]
SelectPin(current_pins, pin_mode) ==
    IF pin_mode = "oldest" THEN current_pins[Len(current_pins)] ELSE current_pins[1]

\* a guard that forgets to append the candidate when the stack is empty
GuardStepNoAppend(stack, pin_id) ==
    IF stack = <<>>
    THEN [stack |-> stack, proceed |-> TRUE]
    ELSE [stack |-> SubSeq(stack, 1, Len(stack) - 1),
          proceed |-> stack[Len(stack)] # pin_id]

\* a guard that compares with the top of the stack without popping it
GuardStepPeek(stack, pin_id) ==
    IF stack = <<>>
    THEN [stack |-> Append(stack, pin_id), proceed |-> TRUE]
    ELSE [stack |-> IF stack[Len(stack)] # pin_id THEN Append(stack, pin_id) ELSE stack,
          proceed |-> stack[Len(stack)] # pin_id]

\* the pop / append / compare on _guard_stack for a candidate pin id
GuardStep(stack, pin_id) ==
    IF stack = <<>>
    THEN [stack |-> Append(stack, pin_id), proceed |-> TRUE]
    ELSE [stack |-> SubSeq(stack, 1, Len(stack) - 1),
          proceed |-> stack[Len(stack)] # pin_id]

\* A pin list as channel.pins() returns it: n distinct messages, `first` at index 0
\* and `last` at index -1.
PinsList(n, first, last) ==
    [k \in 1..n |-> IF k = 1 THEN first ELSE IF k = n THEN last ELSE MaxMsgs + k]

PinCounts == {0, 1, PinThreshold - 1, PinThreshold, PinThreshold + 1}

PinLists ==
    {PinsList(n, f, l) : n \in PinCounts \ {0, 1}, f \in MsgIds, l \in MsgIds}
        \cup {PinsList(1, f, f) : f \in MsgIds} \cup {<<>>}

\* well-formed lists only: the two ends are different messages
FetchedLists == {ps \in PinLists : Len(ps) >= 2 => ps[1] # ps[Len(ps)]}

(* ------------------------------ state ---------------------------------- *)
VARIABLES
    db,               \* the rows of pin_archive_settings
    lastOp,           \* the latest /pin command: its arguments, the row before, the result
    guard_stack,      \* PinArchiverBot._guard_stack
    debug,            \* __debug__: whether assert statements are executed
    pc,               \* per handler invocation: the await it is suspended at
    guild,            \* per invocation: channel.guild.id
    location,         \* per invocation: the local `location`
    pin,              \* per invocation: the local `pin`
    archive_channel,  \* per invocation: the local `archive_channel`
    calls,            \* per invocation: the platform calls completed so far
    outcome,          \* per invocation: how it ended
    guardLog          \* the consultations of the guard, in order

vars == <<db, lastOp, guard_stack, debug, pc, guild, location, pin,
          archive_channel, calls, outcome, guardLog>>

storeVars == <<db, lastOp>>

taskVars == <<guard_stack, pc, guild, location, pin, archive_channel, calls,
              outcome, guardLog>>

NoOp == [op |-> "none", guild_id |-> None, channel |-> None, mode |-> NoMode,
         before |-> <<>>, result |-> NoLocation, reply |-> "none",
         statement |-> "none"]

TaskInit ==
    /\ guard_stack = <<>>
    /\ debug \in BOOLEAN
    /\ pc = [i \in Tasks |-> "idle"]
    /\ guild = [i \in Tasks |-> None]
    /\ location = [i \in Tasks |-> NoLocation]
    /\ pin = [i \in Tasks |-> None]
    /\ archive_channel = [i \in Tasks |-> None]
    /\ calls = [i \in Tasks |-> <<>>]
    /\ outcome = [i \in Tasks |-> "running"]
    /\ guardLog = <<>>

Init ==
    /\ db = {}
    /\ lastOp = NoOp
    /\ TaskInit

(* --------------------------- /pin commands ----------------------------- *)
\* the rows a RETURNING * clause yields for the guild the statement touched
Returning(table, guild_id) == RowList(table, guild_id)

\* PinArchiverBot.upsert_archive_channel: the table after the statement
upsert_archive_channel(table, guild_id, channel_id, pin_mode) ==
    UpsertArchive(table, to_row(PinArchiveLocation(guild_id, channel_id, pin_mode)))

\* PinArchiverBot.update_archive_channel: the statement it picks, "none" when it
\* returns None without running one
update_statement(channel, pin_mode) ==
    IF channel # None /\ pin_mode # NoMode THEN "UPDATE_CHANNEL_AND_MODE"
    ELSE IF channel # None THEN "UPDATE_CHANNEL"
    ELSE IF pin_mode # NoMode THEN "UPDATE_MODE"
    ELSE "none"

\* an update that falls back to the default mode when nothing is supplied
update_archive_channel_default(table, guild_id, channel, pin_mode) ==
    IF channel # None /\ pin_mode # NoMode
    THEN UpdateChannelAndMode(table, channel, PinModeValue(pin_mode), guild_id)
    ELSE IF channel # None
    THEN UpdateChannel(table, channel, guild_id)
    ELSE UpdateMode(table, PinModeValue(IF pin_mode # NoMode THEN pin_mode ELSE "oldest"),
                    guild_id)

\* PinArchiverBot.update_archive_channel: the table after the statement it picks
update_archive_channel(table, guild_id, channel, pin_mode) ==
    IF channel # None /\ pin_mode # NoMode
    THEN UpdateChannelAndMode(table, channel, PinModeValue(pin_mode), guild_id)
    ELSE IF channel # None
    THEN UpdateChannel(table, channel, guild_id)
    ELSE IF pin_mode # NoMode
    THEN UpdateMode(table, PinModeValue(pin_mode), guild_id)
    ELSE table

\* /pin setup
pin_setup(g, archive, mode) ==
    LET table == upsert_archive_channel(db, g, archive, mode)
        loc == FirstLocation(Returning(table, g))
    IN  /\ db' = table
        /\ lastOp' = [op |-> "setup", guild_id |-> g, channel |-> archive,
                      mode |-> mode, before |-> RowList(db, g), result |-> loc,
                      reply |-> IF loc # NoLocation THEN "settings" ELSE "none",
                      statement |-> "UPSERT_ARCHIVE"]
        /\ UNCHANGED <<debug, taskVars>>

\* /pin update: with neither argument it replies at once and runs no statement
pin_update(g, archive, mode) ==
    LET nothing == archive = None /\ mode = NoMode
        table == IF nothing THEN db ELSE update_archive_channel(db, g, archive, mode)
        loc == IF nothing THEN NoLocation ELSE FirstLocation(Returning(table, g))
    IN  /\ db' = table
        /\ lastOp' = [op |-> "update", guild_id |-> g, channel |-> archive,
                      mode |-> mode, before |-> RowList(db, g), result |-> loc,
                      reply |-> IF nothing THEN "no changes"
                                ELSE IF loc # NoLocation THEN "settings" ELSE "none",
                      statement |-> IF nothing THEN "none"
                                    ELSE update_statement(archive, mode)]
        /\ UNCHANGED <<debug, taskVars>>

\* /pin current
pin_current(g) ==
    LET loc == get_archive_channel(db, g)
    IN  /\ lastOp' = [op |-> "current", guild_id |-> g, channel |-> None,
                      mode |-> NoMode, before |-> RowList(db, g), result |-> loc,
                      reply |-> IF loc # NoLocation THEN "settings" ELSE "not set up",
                      statement |-> "SELECT_BY_GUILD"]
        /\ UNCHANGED <<db, debug, taskVars>>

\* /pin disable
pin_disable(g) ==
    /\ db' = DropArchive(db, g)
    /\ lastOp' = [op |-> "disable", guild_id |-> g, channel |-> None,
                  mode |-> NoMode, before |-> RowList(db, g), result |-> NoLocation,
                  reply |-> "disabled", statement |-> "DROP_ARCHIVE"]
    /\ UNCHANGED <<debug, taskVars>>

(* ----------------- on_guild_channel_pins_update ------------------------ *)
Call(name, ok) == [call |-> name, ok |-> ok]

\* the invocation ends: its locals are gone
Finish(i, how) ==
    /\ pc' = [pc EXCEPT ![i] = "done"]
    /\ outcome' = [outcome EXCEPT ![i] = how]
    /\ guild' = [guild EXCEPT ![i] = None]
    /\ location' = [location EXCEPT ![i] = NoLocation]
    /\ pin' = [pin EXCEPT ![i] = None]
    /\ archive_channel' = [archive_channel EXCEPT ![i] = None]

\* The event is dispatched for a channel of guild g; the handler awaits get_archive_channel.
\* Invocations are numbered in the order they start.
Dispatch(i, g) ==
    /\ pc[i] = "idle"
    /\ IF i = 1 THEN TRUE ELSE pc[i - 1] # "idle"
    /\ pc' = [pc EXCEPT ![i] = "get"]
    /\ guild' = [guild EXCEPT ![i] = g]
    /\ UNCHANGED <<storeVars, debug, guard_stack, location, pin, archive_channel,
                   calls, outcome, guardLog>>

\* get_archive_channel returns; `if not location: return`, else await channel.pins()
AfterGet(i) ==
    /\ pc[i] = "get"
    /\ LET loc == get_archive_channel(db, guild[i])
       IN  IF loc = NoLocation
           THEN Finish(i, "no settings")
           ELSE /\ pc' = [pc EXCEPT ![i] = "pins"]
                /\ location' = [location EXCEPT ![i] = loc]
                /\ UNCHANGED <<guild, pin, archive_channel, outcome>>
    /\ UNCHANGED <<storeVars, debug, guard_stack, calls, guardLog>>

\* a handler whose except clause falls through to the else branch
PinsStepIgnoreFailure(loc, stack, dbg, ok, current_pins, gone) ==
    LET ch == get_channel(loc.channel_id, gone)
        p == SelectPin(current_pins, loc.pin_mode)
        g == GuardStep(stack, p)
        stop(how) == [next |-> how, pin |-> None, archive_channel |-> None,
                      stack |-> stack, consulted |-> FALSE]
    IN  IF BelowThreshold(current_pins) THEN stop("below threshold")
        ELSE IF dbg /\ ch = None THEN stop("AssertionError")
        ELSE IF ~g.proceed
        THEN [next |-> "duplicate", pin |-> p, archive_channel |-> None,
              stack |-> g.stack, consulted |-> TRUE]
        ELSE [next |-> "unpin", pin |-> p, archive_channel |-> ch,
              stack |-> g.stack, consulted |-> TRUE]

\* What the code from the return of channel.pins() up to the next await decides:
\* where the invocation goes, the candidate, the archive channel, the guard.
PinsStep(loc, stack, dbg, ok, current_pins, gone) ==
    LET ch == get_channel(loc.channel_id, gone)
        p == SelectPin(current_pins, loc.pin_mode)
        g == GuardStep(stack, p)
        stop(how) == [next |-> how, pin |-> None, archive_channel |-> None,
                      stack |-> stack, consulted |-> FALSE]
    IN  IF ~ok THEN stop("pins failed")
        ELSE IF BelowThreshold(current_pins) THEN stop("below threshold")
        ELSE IF dbg /\ ch = None THEN stop("AssertionError")
        ELSE IF ~g.proceed
        THEN [next |-> "duplicate", pin |-> p, archive_channel |-> None,
              stack |-> g.stack, consulted |-> TRUE]
        ELSE [next |-> "unpin", pin |-> p, archive_channel |-> ch,
              stack |-> g.stack, consulted |-> TRUE]

\* channel.pins() returns current_pins or raises (ok = FALSE); threshold, archive
\* channel (gone: the guild no longer has it), candidate, guard; then await pin.unpin()
PinsReturn(i, ok, current_pins, gone) ==
    /\ pc[i] = "pins"
    /\ LET r == PinsStep(location[i], guard_stack, debug, ok, current_pins, gone)
       IN  /\ calls' = [calls EXCEPT ![i] = Append(@, Call("pins", ok))]
           /\ guard_stack' = r.stack
           /\ guardLog' = IF r.consulted
                          THEN Append(guardLog, [task |-> i, pin |-> r.pin,
                                                 before |-> guard_stack,
                                                 proceed |-> r.next = "unpin"])
                          ELSE guardLog
           /\ IF r.next = "unpin"
              THEN /\ pc' = [pc EXCEPT ![i] = "unpin"]
                   /\ pin' = [pin EXCEPT ![i] = r.pin]
                   /\ archive_channel' = [archive_channel EXCEPT ![i] = r.archive_channel]
                   /\ UNCHANGED <<guild, location, outcome>>
              ELSE Finish(i, r.next)
    /\ UNCHANGED <<storeVars, debug>>

AfterPins(i) ==
    \E ok \in BOOLEAN, current_pins \in FetchedLists, gone \in BOOLEAN :
        PinsReturn(i, ok, current_pins, gone)

\* a handler that sends to the archive even when the unpin raised
AfterUnpinSendAnyway(i) ==
    /\ pc[i] = "unpin"
    /\ \E ok \in BOOLEAN :
        /\ calls' = [calls EXCEPT ![i] = Append(@, Call("unpin", ok))]
        /\ IF archive_channel[i] = None THEN Finish(i, "AttributeError")
           ELSE /\ pc' = [pc EXCEPT ![i] = "send"]
                /\ UNCHANGED <<guild, location, pin, archive_channel, outcome>>
    /\ UNCHANGED <<storeVars, debug, guard_stack, guardLog>>

\* pin.unpin() returns or raises HTTPException; create_pin_embed; await archive_channel.send()
AfterUnpin(i) ==
    /\ pc[i] = "unpin"
    /\ \E ok \in BOOLEAN :
        /\ calls' = [calls EXCEPT ![i] = Append(@, Call("unpin", ok))]
        /\ IF ~ok THEN Finish(i, "unpin failed")
           ELSE IF archive_channel[i] = None THEN Finish(i, "AttributeError")
           ELSE /\ pc' = [pc EXCEPT ![i] = "send"]
                /\ UNCHANGED <<guild, location, pin, archive_channel, outcome>>
    /\ UNCHANGED <<storeVars, debug, guard_stack, guardLog>>

\* a handler that sends again when the send raised
AfterSendRetry(i) ==
    /\ pc[i] = "send"
    /\ \E ok \in BOOLEAN :
        /\ calls' = [calls EXCEPT ![i] = Append(@, Call("send", ok))]
        /\ IF ok THEN Finish(i, "archived")
           ELSE UNCHANGED <<pc, guild, location, pin, archive_channel, outcome>>
    /\ UNCHANGED <<storeVars, debug, guard_stack, guardLog>>

\* archive_channel.send() returns or raises HTTPException
AfterSend(i) ==
    /\ pc[i] = "send"
    /\ \E ok \in BOOLEAN :
        /\ calls' = [calls EXCEPT ![i] = Append(@, Call("send", ok))]
        /\ Finish(i, IF ok THEN "archived" ELSE "send failed")
    /\ UNCHANGED <<storeVars, debug, guard_stack, guardLog>>

(* --------------------------- specifications ---------------------------- *)
Channels == TextChannels \cup {None}

Modes == PinMode \cup {NoMode}

Commands ==
    \E g \in Guilds :
        \/ \E c \in TextChannels, m \in PinMode : pin_setup(g, c, m)
        \/ \E c \in Channels, m \in Modes : pin_update(g, c, m)
        \/ pin_current(g)
        \/ pin_disable(g)

Handler ==
    \E i \in Tasks :
        \/ \E g \in Guilds : Dispatch(i, g)
        \/ AfterGet(i)
        \/ AfterPins(i)
        \/ AfterUnpin(i)
        \/ AfterSend(i)

Next == Commands \/ Handler

Spec == Init /\ [][Next]_vars

\* the commands alone
SpecStore == Init /\ [][Commands]_vars

\* The tables /pin setup commands leave behind in the database file: at most one
\* row per guild, for at most MaxConfigured guilds.
Tables ==
    LET rows == {to_row(PinArchiveLocation(g, c, m)) :
                    g \in Guilds, c \in TextChannels, m \in PinMode}
    IN  {t \in SUBSET rows : /\ \A r1, r2 \in t : r1[1] = r2[1] => r1 = r2
                             /\ Cardinality(t) <= MaxConfigured}

\* The bot starts on the database file of its earlier runs.
InitHandler ==
    /\ db \in Tables
    /\ lastOp = NoOp
    /\ TaskInit

\* handler invocations over a table no command changes meanwhile
SpecHandler == InitHandler /\ [][Handler]_vars

\* handler invocations while guilds disable their archive
SpecDisable == InitHandler /\ [][Handler \/ \E g \in Guilds : pin_disable(g)]_vars

\* the steps of the first pins event alone
HandlerOnce ==
    \/ \E g \in Guilds : Dispatch(1, g)
    \/ AfterGet(1)
    \/ AfterPins(1)
    \/ AfterUnpin(1)
    \/ AfterSend(1)

\* the commands the guilds issue before the first pins event arrives, then that event
SpecFrame == Init /\ [][(pc[1] = "idle" /\ Commands) \/ HandlerOnce]_vars

(* ======================= properties of the store ======================= *)
Supplied(op) == <<op.channel # None, op.mode # NoMode>>

\* C3: update for a guild that has a row, with both a channel and a mode supplied,
\* leaves the row (guild, channel, mode) and returns that row.
C3_UpdateBothSetsBoth ==
    (/\ lastOp.op = "update"
     /\ Supplied(lastOp) = <<TRUE, TRUE>>
     /\ lastOp.before # <<>>)
    => /\ RowList(db, lastOp.guild_id)
            = <<to_row(PinArchiveLocation(lastOp.guild_id, lastOp.channel, lastOp.mode))>>
       /\ lastOp.result
            = PinArchiveLocation(lastOp.guild_id, lastOp.channel, lastOp.mode)

\* C9: update for a guild whose row is (g, c, m) with only a channel c2 supplied
\* leaves (g, c2, m), with only a mode m2 supplied leaves (g, c, m2); the returned
\* row is the stored row.
C9_UpdateOneKeepsOther ==
    (/\ lastOp.op = "update"
     /\ lastOp.before # <<>>
     /\ Supplied(lastOp) \in {<<TRUE, FALSE>>, <<FALSE, TRUE>>})
    => LET old == lastOp.before[1]
           new == IF lastOp.channel # None
                  THEN <<old[1], lastOp.channel, old[3]>>
                  ELSE <<old[1], old[2], PinModeValue(lastOp.mode)>>
       IN  /\ old[1] = lastOp.guild_id
           /\ RowsOf(db, lastOp.guild_id) = {new}
           /\ lastOp.result = from_row(new)

\* C9 witness: a channel-only update changed the channel of a row whose mode is newest.
C9_Witness ==
    /\ lastOp.op = "update"
    /\ Supplied(lastOp) = <<TRUE, FALSE>>
    /\ lastOp.before # <<>>
    /\ lastOp.before[1][2] # lastOp.channel
    /\ lastOp.before[1][3] = PinModeValue("newest")
    /\ lastOp.result.pin_mode = "newest"

\* C10: after setup(g, c, m), whatever g's row was, the returned row and a following
\* get(g) are both (g, c, m), and g has exactly one row.
C10_UpsertRoundTrip ==
    lastOp.op = "setup"
    => LET loc == PinArchiveLocation(lastOp.guild_id, lastOp.channel, lastOp.mode)
       IN  /\ lastOp.result = loc
           /\ get_archive_channel(db, lastOp.guild_id) = loc
           /\ Cardinality(RowsOf(db, lastOp.guild_id)) = 1

\* C10 witness: a setup overwrote a row that differed in channel and in mode.
C10_Witness ==
    /\ lastOp.op = "setup"
    /\ lastOp.before # <<>>
    /\ lastOp.before[1][2] # lastOp.channel
    /\ lastOp.before[1][3] # PinModeValue(lastOp.mode)
    /\ get_archive_channel(db, lastOp.guild_id) = lastOp.result

\* C11: disable(g) never fails; a row of g is removed and a following get(g) is
\* absent; without a row of g the table stays exactly as it was; a second delete
\* changes nothing more.
C11_DeleteIdempotent ==
    [][\A g \in Guilds :
        pin_disable(g)
        => /\ lastOp'.reply = "disabled"
           /\ get_archive_channel(db', g) = NoLocation
           /\ db' = {r \in db : r[1] # g}
           /\ RowsOf(db, g) = {} => db' = db
           /\ DropArchive(db', g) = db']_vars

\* C11 witness: a disable ran for a guild without a row while another guild has one.
C11_Witness ==
    /\ lastOp.op = "disable"
    /\ lastOp.before = <<>>
    /\ lastOp.reply = "disabled"
    /\ db # {}

\* C12: update for a guild without a row, with a channel, a mode or both supplied,
\* returns absent and leaves the table unchanged: no row is created.
C12_UpdateWithoutRow ==
    [][\A g \in Guilds, c \in Channels, m \in Modes :
        (pin_update(g, c, m) /\ RowsOf(db, g) = {} /\ (c # None \/ m # NoMode))
        => /\ db' = db
           /\ lastOp'.result = NoLocation
           /\ lastOp'.reply = "none"
           /\ get_archive_channel(db', g) = NoLocation]_vars

\* C12 witness: an update with a channel ran for a guild without a row and returned absent.
C12_Witness ==
    /\ lastOp.op = "update"
    /\ lastOp.channel # None
    /\ lastOp.before = <<>>
    /\ lastOp.result = NoLocation
    /\ RowsOf(db, lastOp.guild_id) = {}
    /\ db # {}

\* C13: update with neither a channel nor a mode leaves the whole table unchanged and
\* reports absent; the update command then answers that no changes were made and
\* runs no statement.
C13_UpdateNothing ==
    [][\A g \in Guilds :
        pin_update(g, None, NoMode)
        => /\ db' = db
           /\ lastOp'.result = NoLocation
           /\ lastOp'.reply = "no changes"
           /\ lastOp'.statement = "none"
           /\ update_archive_channel(db, g, None, NoMode) = db
           /\ update_statement(None, NoMode) = "none"]_vars

\* C13 witness: an update with neither argument ran for a guild whose mode is newest.
C13_Witness ==
    /\ lastOp.op = "update"
    /\ Supplied(lastOp) = <<FALSE, FALSE>>
    /\ lastOp.reply = "no changes"
    /\ lastOp.before # <<>>
    /\ lastOp.before[1][3] = PinModeValue("newest")

(* ====================== properties of the handler ====================== *)
Raised == {"AssertionError", "AttributeError"}

\* C1: two consecutive consultations of the guard with the same candidate never
\* both proceed to relocation, whatever the guard held before the first of them.
C1_NoDoubleProcessing ==
    \A k \in 1..(Len(guardLog) - 1) :
        guardLog[k].pin = guardLog[k + 1].pin
        => ~(guardLog[k].proceed /\ guardLog[k + 1].proceed)

\* C2: from an empty guard, the first consultation (candidate X) proceeds; a second
\* one right after it with X again is suppressed and that invocation unpins and
\* sends nothing; a third one with another candidate Y proceeds.
C2_FirstSecondThird ==
    \A k \in 1..Len(guardLog) :
        guardLog[k].before = <<>>
        => /\ guardLog[k].proceed
           /\ (k + 1 <= Len(guardLog) /\ guardLog[k + 1].pin = guardLog[k].pin)
              => /\ ~guardLog[k + 1].proceed
                 /\ outcome[guardLog[k + 1].task] = "duplicate"
                 /\ calls[guardLog[k + 1].task] = <<Call("pins", TRUE)>>
                 /\ (k + 2 <= Len(guardLog) /\ guardLog[k + 2].pin # guardLog[k].pin)
                    => guardLog[k + 2].proceed

\* C2 witness: three consultations X, X, Y from an empty guard: proceed, suppressed, proceed.
C2_Witness ==
    /\ Len(guardLog) = 3
    /\ guardLog[1].before = <<>>
    /\ guardLog[2].pin = guardLog[1].pin
    /\ guardLog[3].pin # guardLog[1].pin
    /\ guardLog[1].proceed /\ ~guardLog[2].proceed /\ guardLog[3].proceed

\* C4: with stored settings and a fetched list of at least 49 pins, the candidate is
\* the last element of the list under mode OLDEST and the first under mode NEWEST.
C4_CandidateByMode ==
    [][\A i \in Tasks :
        pc[i] = "pins" =>
        \A current_pins \in FetchedLists, gone \in BOOLEAN :
            (/\ Len(current_pins) >= PinThreshold
             /\ PinsReturn(i, TRUE, current_pins, gone)
             /\ Len(guardLog') > Len(guardLog))
            => LET row == CHOOSE r \in RowsOf(db, guild[i]) : TRUE
                   candidate == IF row[3] = PinModeValue("oldest")
                                THEN current_pins[Len(current_pins)]
                                ELSE current_pins[1]
               IN  /\ RowsOf(db, guild[i]) # {}
                   /\ guardLog'[Len(guardLog')].pin = candidate
                   /\ pc'[i] = "unpin" => pin'[i] = candidate]_vars

\* C4 witness: an invocation under mode NEWEST holds its candidate and awaits the unpin.
C4_Witness ==
    \E i \in Tasks :
        /\ pc[i] = "unpin"
        /\ location[i].pin_mode = "newest"
        /\ pin[i] \in MsgIds
        /\ guardLog # <<>>

C6_NoSettingsNoOp ==
    [][\A i \in Tasks :
        (pc[i] = "get" /\ RowsOf(db, guild[i]) = {} /\ pc'[i] # "get")
        => /\ get_archive_channel(db, guild[i]) = NoLocation
           /\ pc'[i] = "done"
           /\ outcome'[i] = "no settings"
           /\ calls'[i] = <<>>
           /\ guard_stack' = guard_stack
           /\ guardLog' = guardLog]_vars

\* C6 witness: an invocation ended for want of settings while another guild has a row.
C6_Witness ==
    \E i \in Tasks :
        /\ outcome[i] = "no settings"
        /\ calls[i] = <<>>
        /\ db # {}

\* C7: while the latest settings command is a completed disable of guild G, no
\* invocation for G (one that started before the disable included) goes on to
\* unpin a message or to send one to the archive channel.
C7_NoMoveAfterDisable ==
    [][\A i \in Tasks :
        (lastOp.op = "disable" /\ guild[i] = lastOp.guild_id)
        => ~(pc'[i] \in {"unpin", "send"} /\ pc'[i] # pc[i])]_vars

\* C8: no invocation ends in an uncaught error: every failure is logged and returned.
C8_FailuresLogAndReturn ==
    \A i \in Tasks : outcome[i] \notin Raised

\* C14: whenever the guard suppresses an invocation for candidate X, an earlier
\* invocation that proceeded with X has unpinned X or is still at work on it.
C14_SuppressedMeansHandled ==
    [][(Len(guardLog') > Len(guardLog) /\ ~guardLog'[Len(guardLog')].proceed)
        => \E k \in 1..Len(guardLog) :
              /\ guardLog[k].pin = guardLog'[Len(guardLog')].pin
              /\ guardLog[k].proceed
              /\ \/ pc[guardLog[k].task] \in {"unpin", "send"}
                 \/ \E n \in 1..Len(calls[guardLog[k].task]) :
                       calls[guardLog[k].task][n] = Call("unpin", TRUE)]_vars

\* C15: the guard holds 0 or 1 identifiers in every reachable state.
C15_GuardAtMostOne == Len(guard_stack) <= 1

\* C15 witness: after three consultations, two of their invocations still in flight,
\* the guard holds one identifier.
C15_Witness ==
    /\ Len(guardLog) = 3
    /\ Len(guard_stack) = 1
    /\ \E i, j \in Tasks : i # j /\ pc[i] \in {"unpin", "send"} /\ pc[j] \in {"unpin", "send"}

\* C16: after a consultation that lets candidate X proceed, the guard holds exactly X,
\* whether it was empty or held another identifier before.
C16_GuardHoldsLatest ==
    (guardLog # <<>> /\ guardLog[Len(guardLog)].proceed)
    => guard_stack = <<guardLog[Len(guardLog)].pin>>

\* C17: a send is issued only after the unpin of the same pin succeeded; a failed
\* unpin ends the invocation without a send; a failed send ends it with the unpin
\* left as it is.
C17_SendAfterUnpin ==
    \A i \in Tasks :
        LET c == calls[i]
        IN  /\ \A n \in 1..Len(c) :
                  c[n].call = "send" => (n > 1 /\ c[n - 1] = Call("unpin", TRUE))
            /\ pc[i] = "send"
               => /\ c[Len(c)] = Call("unpin", TRUE)
                  /\ \E k \in 1..Len(guardLog) :
                        /\ guardLog[k].task = i
                        /\ guardLog[k].proceed
                        /\ guardLog[k].pin = pin[i]
            /\ (\E n \in 1..Len(c) : c[n] = Call("unpin", FALSE))
               => /\ pc[i] = "done"
                  /\ outcome[i] = "unpin failed"
                  /\ \A n \in 1..Len(c) : c[n].call # "send"
            /\ (\E n \in 1..Len(c) : c[n] = Call("send", FALSE))
               => /\ pc[i] = "done"
                  /\ outcome[i] = "send failed"
                  /\ c = <<Call("pins", TRUE), Call("unpin", TRUE), Call("send", FALSE)>>

\* C17 witness: an invocation ended on a failed send after a successful unpin.
C17_Witness ==
    \E i \in Tasks :
        /\ outcome[i] = "send failed"
        /\ calls[i] = <<Call("pins", TRUE), Call("unpin", TRUE), Call("send", FALSE)>>

\* C18: an invocation issues at most one fetch, one unpin and one send, in that
\* order; a failed call is its last call and ends it; every step of an invocation
\* moves it forward, so it ends after at most five steps.
C18_NoRetries ==
    /\ [](\A i \in Tasks :
            /\ Len(calls[i]) <= 3
            /\ \A n \in 1..Len(calls[i]) :
                  /\ calls[i][n].call = <<"pins", "unpin", "send">>[n]
                  /\ ~calls[i][n].ok => (n = Len(calls[i]) /\ pc[i] = "done"))
    /\ [][LET rank(p) == CASE p = "idle" -> 0 [] p = "get" -> 1 [] p = "pins" -> 2
                           [] p = "unpin" -> 3 [] p = "send" -> 4 [] p = "done" -> 5
          IN  \A i \in Tasks :
                  /\ rank(pc'[i]) >= rank(pc[i])
                  /\ calls'[i] # calls[i] => rank(pc'[i]) > rank(pc[i])]_vars

\* C18 witness: an invocation ended on a failed unpin, after the fetch and that one call.
C18_Witness ==
    \E i \in Tasks :
        /\ pc[i] = "done"
        /\ calls[i] = <<Call("pins", TRUE), Call("unpin", FALSE)>>

\* C19: when the fetch of the pin list fails the invocation logs and ends: no unpin,
\* no send, no second fetch, and the guard and the settings table stay as they were.
C19_FetchFailureStops ==
    [][\A i \in Tasks :
        pc[i] = "pins" =>
        \A current_pins \in FetchedLists, gone \in BOOLEAN :
            PinsReturn(i, FALSE, current_pins, gone)
            => /\ pc'[i] = "done"
               /\ outcome'[i] = "pins failed"
               /\ calls'[i] = <<Call("pins", FALSE)>>
               /\ guard_stack' = guard_stack
               /\ guardLog' = guardLog
               /\ db' = db]_vars

\* C19 witness: an invocation ended on a failed fetch while the guard held an identifier.
C19_Witness ==
    \E i \in Tasks :
        /\ outcome[i] = "pins failed"
        /\ calls[i] = <<Call("pins", FALSE)>>
        /\ guard_stack # <<>>

\* C20: a settings operation for guild g (setup, update, current, disable) leaves the
\* rows of every other guild as they were, and no step of the pins handler changes
\* the settings table.
C20_OtherGuildsUntouched ==
    [][/\ \A g \in Guilds :
            (\/ \E c \in TextChannels, m \in PinMode : pin_setup(g, c, m)
             \/ \E c \in Channels, m \in Modes : pin_update(g, c, m)
             \/ pin_current(g)
             \/ pin_disable(g))
            => \A h \in Guilds \ {g} : RowsOf(db', h) = RowsOf(db, h)
       /\ \A g \in Guilds : pin_current(g) => db' = db
       /\ Handler => db' = db]_vars

\* C20 witness: guild 1 updated its mode while guild 2 has a row with the other
\* mode, and the pins event that followed was archived.
C20_Witness ==
    /\ lastOp.op = "update"
    /\ lastOp.guild_id = 1
    /\ lastOp.mode = "newest"
    /\ lastOp.result # NoLocation
    /\ outcome[1] = "archived"
    /\ \E r \in RowsOf(db, 2) : r[3] = PinModeValue("oldest")

====
